---- MODULE Spec2Model ----
(***************************************************************************)
(* Model of run_all_experiments.py: the batch driver main() that launches  *)
(* every (dataset, model, setting) experiment as a blocking subprocess     *)
(* through run_experiment(), collects one result record per experiment and *)
(* prints a summary.                                                       *)
(***************************************************************************)
EXTENDS Integers, Sequences, FiniteSets, TLC

(* ---------------------------------------------------------------- bounds *)

\* Largest number of experiments whose subprocess may fail or be interrupted
\* in one run of main().
MaxFailures == 1

\* Seconds of wall-clock time one subprocess wait may take.
WaitTimes == {60}

(* ------------------------------------------------------- static tables *)

\* Python's None, and a present optional value.
None == <<>>
Some(x) == <<x>>

MODELS ==
  << <<"CAMeL-Lab/bert-base-arabic-camelbert-mix", "bert", "CAMeLBERTmix">>,
     <<"aubmindlab/bert-base-arabertv2", "bert", "AraBERTv2">>,
     <<"aubmindlab/araelectra-base-discriminator", "electra", "AraELECTRA">>,
     <<"google-bert/bert-base-multilingual-cased", "bert", "mBERT">>,
     <<"xlm-roberta-base", "xlmroberta", "XLM-R">> >>

DARES1_SETTINGS ==
  << <<"raw", None, "Fine">>,
     <<"append_word", Some("Word"), "Fine">>,
     <<"append_filename", Some("Arabic_Filename"), "Fine">>,
     <<"raw_cat", None, "Coarse">>,
     <<"append_word_categorised", Some("Word"), "Coarse">>,
     <<"append_filename_categorised", Some("Arabic_Filename"), "Coarse">> >>

DARES2_SETTINGS ==
  << <<"raw", None, "Fine">>,
     <<"append_word", Some("Word"), "Fine">>,
     <<"append_filename", Some("Arabic_Filename"), "Fine">>,
     <<"word_file", Some("word_file"), "Fine">>,
     <<"raw_cat", None, "Coarse">>,
     <<"append_word_categorised", Some("Word"), "Coarse">>,
     <<"append_filename_categorised", Some("Arabic_Filename"), "Coarse">>,
     <<"word_file_cat", Some("word_file_cat"), "Coarse">> >>

NUM_EPOCHS == 4
N_FOLD == 3
CUDA_DEVICE == 0

\* LR = 0.00001 as its shortest decimal digits and the position of the
\* decimal point: 0.00001 = 0.1 * 10^(-4).
LR == [digits |-> <<1>>, decpt |-> -4]

\* sys.executable: the interpreter running the driver.
sys_executable == "python"

\* The module run for each phase (dataset label, script).
Phases ==
  << [dataset |-> "DARES1.0", script |-> "experiments.dares1.0_assess",
      settings |-> DARES1_SETTINGS],
     [dataset |-> "DARES2.0", script |-> "experiments.dares2.0_assess",
      settings |-> DARES2_SETTINGS] >>

(* ------------------------------------------------------ str() of values *)

Digit(d) == <<"0", "1", "2", "3", "4", "5", "6", "7", "8", "9">>[d + 1]

\* str(n) of a non-negative int.
RECURSIVE StrInt(_)
StrInt(n) == IF n < 10 THEN Digit(n) ELSE StrInt(n \div 10) \o Digit(n % 10)

RECURSIVE Digits(_)
Digits(ds) == IF ds = <<>> THEN "" ELSE Digit(Head(ds)) \o Digits(Tail(ds))

RECURSIVE Zeros(_)
Zeros(n) == IF n <= 0 THEN "" ELSE "0" \o Zeros(n - 1)

\* Variant: always fixed notation, never an exponent.
StrFloat_Fixed(f) == "0." \o Zeros(-f.decpt) \o Digits(f.digits)

\* str(x) of a positive float below 1 given as digits and decimal point
\* position: repr switches to exponent notation when decpt <= -4 (the decimal
\* exponent decpt - 1 is below -4), with an exponent of at least two digits.
StrFloat(f) ==
  LET e == f.decpt - 1
      mant == IF Len(f.digits) = 1 THEN Digit(f.digits[1])
              ELSE Digit(f.digits[1]) \o "." \o Digits(Tail(f.digits))
      ex == IF -e < 10 THEN "0" \o StrInt(-e) ELSE StrInt(-e)
  IN IF f.decpt <= -4
       THEN mant \o "e-" \o ex
       ELSE "0." \o Zeros(-f.decpt) \o Digits(f.digits)

(* ------------------------------------------------------- run_experiment *)

\* Truthiness of an optional string: None and "" are falsy.
Truthy(x) == x # None /\ x[1] # ""

\* Variant: the append-column pair is added whether or not a column is set.
BuildCmd_AppendAlways(experiment_script, model_name, model_type, run_mode, append_column) ==
  << sys_executable, "-m", experiment_script,
     "--model_name", model_name,
     "--model_type", model_type,
     "--num_train_epochs", StrInt(NUM_EPOCHS),
     "--run_mode", run_mode,
     "--n_fold", StrInt(N_FOLD),
     "--cuda_device", StrInt(CUDA_DEVICE),
     "--lr", StrFloat(LR),
     "--save_predictions", "True",
     "--append_column",
     IF append_column = None THEN "None" ELSE append_column[1] >>

\* The argument list run_experiment builds.
BuildCmd(experiment_script, model_name, model_type, run_mode, append_column) ==
  << sys_executable, "-m", experiment_script,
     "--model_name", model_name,
     "--model_type", model_type,
     "--num_train_epochs", StrInt(NUM_EPOCHS),
     "--run_mode", run_mode,
     "--n_fold", StrInt(N_FOLD),
     "--cuda_device", StrInt(CUDA_DEVICE),
     "--lr", StrFloat(LR),
     "--save_predictions", "True" >>
  \o (IF Truthy(append_column) THEN <<"--append_column", append_column[1]>>
      ELSE <<>>)

\* Variant: no handler for KeyboardInterrupt.
Caught_OnlyCalledProcessError(exc) == exc = "CalledProcessError"

\* Which exceptions of subprocess.run the try statement of run_experiment
\* handles: CalledProcessError and KeyboardInterrupt.
Caught(exc) == exc \in {"CalledProcessError", "KeyboardInterrupt"}

\* subprocess.run(cmd, check=True) raises CalledProcessError on a non-zero
\* exit status.
CheckRaises(returncode) == returncode # 0

\* The (success, elapsed) pair each branch of run_experiment returns; t is
\* time.time() when the branch runs, start the value of start_time.
\* Variant: the interrupt branch measures the elapsed time like the others.
InterruptedReturn_Elapsed(start, t) == <<FALSE, t - start>>

SuccessReturn(start, t) == <<TRUE, t - start>>
FailedReturn(start, t) == <<FALSE, t - start>>
InterruptedReturn(start, t) == <<FALSE, 0>>

(* ----------------------------------------------------------------- main *)

\* elapsed/60 as an exact fraction of seconds over 60.
TimeMin(elapsed) == [num |-> elapsed, den |-> 60]

\* Variant: the grain is stored under run_mode and the run mode under grain.
ResultRecord_Swapped(dataset, model_short, run_mode, grain_type, ret) ==
  [dataset |-> dataset, model |-> model_short, run_mode |-> grain_type,
   grain |-> run_mode, success |-> ret[1], time_min |-> TimeMin(ret[2])]

\* The record main() appends for one experiment.
ResultRecord(dataset, model_short, run_mode, grain_type, ret) ==
  [dataset |-> dataset, model |-> model_short, run_mode |-> run_mode,
   grain |-> grain_type, success |-> ret[1], time_min |-> TimeMin(ret[2])]

\* Variant: the inner loop stops one setting early.
LoopStep_SkipLast(p, m, s) ==
  IF s + 1 < Len(Phases[p].settings)
    THEN [pc |-> "loop", phase |-> p, mi |-> m, si |-> s + 1]
  ELSE IF m < Len(MODELS)
    THEN [pc |-> "loop", phase |-> p, mi |-> m + 1, si |-> 1]
  ELSE IF p < Len(Phases)
    THEN [pc |-> "loop", phase |-> p + 1, mi |-> 1, si |-> 1]
  ELSE [pc |-> "summary", phase |-> p, mi |-> m, si |-> s]

\* Variant: the loops are nested the other way round, settings outside and
\* models inside.
LoopStep_SettingsOuter(p, m, s) ==
  IF m < Len(MODELS)
    THEN [pc |-> "loop", phase |-> p, mi |-> m + 1, si |-> s]
  ELSE IF s < Len(Phases[p].settings)
    THEN [pc |-> "loop", phase |-> p, mi |-> 1, si |-> s + 1]
  ELSE IF p < Len(Phases)
    THEN [pc |-> "loop", phase |-> p + 1, mi |-> 1, si |-> 1]
  ELSE [pc |-> "summary", phase |-> p, mi |-> m, si |-> s]

\* The position of main() after the experiment at (phase, mi, si) has been
\* recorded: the next setting, else the next model, else the next phase, else
\* the summary.
LoopStep(p, m, s) ==
  IF s < Len(Phases[p].settings)
    THEN [pc |-> "loop", phase |-> p, mi |-> m, si |-> s + 1]
  ELSE IF m < Len(MODELS)
    THEN [pc |-> "loop", phase |-> p, mi |-> m + 1, si |-> 1]
  ELSE IF p < Len(Phases)
    THEN [pc |-> "loop", phase |-> p + 1, mi |-> 1, si |-> 1]
  ELSE [pc |-> "summary", phase |-> p, mi |-> m, si |-> s]

\* Variant: the child is started without being waited for.
Reaped_Leak(procs, p) == procs

\* The child processes left once subprocess.run has returned or raised for
\* process p: run() waits for the child, and kills it when interrupted.
Reaped(procs, p) == procs \ {p}

RECURSIVE CountSuccess(_)
CountSuccess(rs) ==
  IF rs = <<>> THEN 0
  ELSE (IF Head(rs).success THEN 1 ELSE 0) + CountSuccess(Tail(rs))

RECURSIVE CountFailed(_)
CountFailed(rs) ==
  IF rs = <<>> THEN 0
  ELSE (IF ~Head(rs).success THEN 1 ELSE 0) + CountFailed(Tail(rs))

\* Variant: a line for every record, failed or not.
FailedLines_Unfiltered(rs) ==
  [k \in 1..Len(rs) |-> <<"-", rs[k].dataset, rs[k].model, rs[k].run_mode>>]

\* One printed line per failed record, in list order.
RECURSIVE FailedLines(_)
FailedLines(rs) ==
  IF rs = <<>> THEN <<>>
  ELSE (IF ~Head(rs).success
          THEN << <<"-", Head(rs).dataset, Head(rs).model, Head(rs).run_mode>> >>
          ELSE <<>>)
       \o FailedLines(Tail(rs))

\* The count lines and the failure list of the summary block.
SummaryLines(rs) ==
  LET successful == CountSuccess(rs)
      failed == CountFailed(rs)
  IN << <<"Successful", successful, Len(rs)>>,
        <<"Failed", failed, Len(rs)>> >>
     \o (IF failed > 0 THEN << <<"Failed experiments:">> >> \o FailedLines(rs)
         ELSE <<>>)

(* ---------------------------------------------------------------- state *)

VARIABLES
  pc,          \* where main() is: "loop", "wait", "summary", "exit", "done", "aborted"
  phase,       \* 1: the DARES1.0 loops, 2: the DARES2.0 loops
  mi,          \* index into MODELS of the outer loop
  si,          \* index into the phase's settings of the inner loop
  now,         \* time.time()
  start_time,  \* start_time of the current run_experiment call
  running,     \* child processes alive: [id, cmd]
  calls,       \* the run_experiment calls made so far, in order
  waits,       \* how each subprocess wait ended: [exc, waited]
  results,     \* the results list of main()
  out,         \* the summary lines printed
  exit_status  \* None while the driver runs, Some(code) once it has ended

vars == <<pc, phase, mi, si, now, start_time, running, calls, waits, results,
          out, exit_status>>

Init ==
  /\ pc = "loop" /\ phase = 1 /\ mi = 1 /\ si = 1
  /\ now = 0 /\ start_time = 0
  /\ running = {} /\ calls = <<>> /\ waits = <<>> /\ results = <<>>
  /\ out = <<>> /\ exit_status = None

\* The arguments of the run_experiment call at the current loop position.
CallArgs(p, m, s) ==
  [dataset |-> Phases[p].dataset,
   experiment_script |-> Phases[p].script,
   model_name |-> MODELS[m][1], model_type |-> MODELS[m][2],
   model_short |-> MODELS[m][3],
   run_mode |-> Phases[p].settings[s][1],
   append_column |-> Phases[p].settings[s][2],
   grain_type |-> Phases[p].settings[s][3]]

\* main() calls run_experiment, which builds the command, takes start_time
\* and starts the subprocess.
Launch ==
  /\ pc = "loop"
  /\ LET a == CallArgs(phase, mi, si)
     IN /\ calls' = Append(calls, a)
        /\ running' = running \cup
             {[id |-> Len(calls) + 1,
               cmd |-> BuildCmd(a.experiment_script, a.model_name,
                                a.model_type, a.run_mode, a.append_column)]}
  /\ start_time' = now
  /\ pc' = "wait"
  /\ UNCHANGED <<phase, mi, si, now, waits, results, out, exit_status>>

\* subprocess.run ends after d seconds, normally (exc = "none") or by raising
\* exc; run_experiment returns or lets the exception through, and main()
\* appends the record and steps its loops.
EndWait(exc, d) ==
  /\ pc = "wait"
  /\ now' = now + d
  /\ waits' = Append(waits, [exc |-> exc, waited |-> d])
  /\ running' = Reaped(running, CHOOSE p \in running : p.id = Len(calls))
  /\ IF exc = "none" \/ Caught(exc)
       THEN LET a == calls[Len(calls)]
                ret == CASE exc = "none" -> SuccessReturn(start_time, now')
                         [] exc = "CalledProcessError" -> FailedReturn(start_time, now')
                         [] OTHER -> InterruptedReturn(start_time, now')
                nxt == LoopStep(phase, mi, si)
            IN /\ results' = Append(results,
                      ResultRecord(a.dataset, a.model_short, a.run_mode,
                                   a.grain_type, ret))
               /\ pc' = nxt.pc /\ phase' = nxt.phase
               /\ mi' = nxt.mi /\ si' = nxt.si
               /\ UNCHANGED exit_status
       ELSE /\ pc' = "aborted" /\ exit_status' = Some(1)
            /\ UNCHANGED <<phase, mi, si, results>>
  /\ UNCHANGED <<start_time, calls, out>>

\* Experiments that have failed or been interrupted so far.
Failures == Cardinality({k \in 1..Len(waits) : waits[k].exc # "none"})

\* The subprocess exits with the given status.
SubprocessExits(returncode, d) ==
  /\ pc = "wait"
  /\ CheckRaises(returncode) => Failures < MaxFailures
  /\ EndWait(IF CheckRaises(returncode) THEN "CalledProcessError" ELSE "none", d)

\* The user interrupts the driver while it waits for the subprocess.
Interrupt(d) ==
  /\ pc = "wait"
  /\ Failures < MaxFailures
  /\ EndWait("KeyboardInterrupt", d)

\* The summary block of main().
Summary ==
  /\ pc = "summary"
  /\ out' = out \o SummaryLines(results)
  /\ pc' = "exit"
  /\ UNCHANGED <<phase, mi, si, now, start_time, running, calls, waits,
                 results, exit_status>>

\* Variant: a failed batch ends with status 1.
ExitCode_Failures(rs) == IF CountFailed(rs) > 0 THEN 1 ELSE 0

\* The exit status of the interpreter once main() has returned: main() sets
\* none, whatever the results.
ExitCode(rs) == 0

\* main() returns and the interpreter exits.
Exit ==
  /\ pc = "exit"
  /\ exit_status' = Some(ExitCode(results))
  /\ pc' = "done"
  /\ UNCHANGED <<phase, mi, si, now, start_time, running, calls, waits,
                 results, out>>

ReturnCodes == {0, 1}

Next ==
  \/ Launch
  \/ \E rc \in ReturnCodes, d \in WaitTimes : SubprocessExits(rc, d)
  \/ \E d \in WaitTimes : Interrupt(d)
  \/ Summary
  \/ Exit

Spec == Init /\ [][Next]_vars

\* Every subprocess eventually returns, and the driver keeps running.
FairSpec == Spec /\ WF_vars(Next)

(* ---------------------------------------------------------- vocabulary *)

\* The loop position <<phase, model index, setting index>> of the k-th
\* experiment of the grid: 5 models by 6 settings, then 5 models by 8.
GridPos(k) ==
  IF k <= 30 THEN <<1, ((k - 1) \div 6) + 1, ((k - 1) % 6) + 1>>
  ELSE <<2, ((k - 31) \div 8) + 1, ((k - 31) % 8) + 1>>

SettingsOf(dataset) ==
  IF dataset = "DARES1.0" THEN DARES1_SETTINGS ELSE DARES2_SETTINGS

\* Call a is the experiment of model m and setting s under dataset d.
IsCombo(a, d, m, s) ==
  /\ a.dataset = d
  /\ <<a.model_name, a.model_type, a.model_short>> = m
  /\ <<a.run_mode, a.append_column, a.grain_type>> = s

PhaseIdx(a) == IF a.dataset = "DARES1.0" THEN 1 ELSE 2
ModelIdx(a) == CHOOSE m \in 1..Len(MODELS) : MODELS[m][1] = a.model_name
SettingIdx(a) ==
  CHOOSE s \in 1..Len(SettingsOf(a.dataset)) :
    SettingsOf(a.dataset)[s][1] = a.run_mode

\* Call a is launched before call b in the order of the tables.
Precedes(a, b) ==
  \/ PhaseIdx(a) < PhaseIdx(b)
  \/ PhaseIdx(a) = PhaseIdx(b) /\ ModelIdx(a) < ModelIdx(b)
  \/ /\ PhaseIdx(a) = PhaseIdx(b) /\ ModelIdx(a) = ModelIdx(b)
     /\ SettingIdx(a) < SettingIdx(b)

AtSummary == pc \in {"summary", "exit", "done"}

Failed(k) == waits[k].exc # "none"

(* --------------------------------------------------------------- claims *)

\* C1: once main() has reached the summary, run_experiment has been called
\* exactly once for every (dataset, model, setting) of MODELS x DARES1_SETTINGS
\* under DARES1.0 and MODELS x DARES2_SETTINGS under DARES2.0 and for nothing
\* else, whatever the outcomes: 70 calls and 70 records, 30 and 40 per dataset.
C1_ExactlyOnce ==
  AtSummary =>
    /\ Len(calls) = 70 /\ Len(results) = 70
    /\ Cardinality({i \in 1..Len(calls) : calls[i].dataset = "DARES1.0"}) = 30
    /\ Cardinality({i \in 1..Len(calls) : calls[i].dataset = "DARES2.0"}) = 40
    /\ Cardinality({i \in 1..Len(results) : results[i].dataset = "DARES1.0"}) = 30
    /\ Cardinality({i \in 1..Len(results) : results[i].dataset = "DARES2.0"}) = 40
    /\ \A d \in {"DARES1.0", "DARES2.0"} :
         \A m \in 1..Len(MODELS), s \in 1..Len(SettingsOf(d)) :
           Cardinality({i \in 1..Len(calls) :
                          IsCombo(calls[i], d, MODELS[m], SettingsOf(d)[s])}) = 1
    /\ \A i \in 1..Len(calls) :
         \E m \in 1..Len(MODELS),
            s \in 1..Len(SettingsOf(calls[i].dataset)) :
           IsCombo(calls[i], calls[i].dataset, MODELS[m],
                   SettingsOf(calls[i].dataset)[s])

C1_Witness ==
  /\ pc = "summary" /\ Len(calls) = 70
  /\ \E k \in 1..Len(waits) : waits[k].exc = "CalledProcessError"

\* C2: the launch order does not depend on outcomes: the call log only grows
\* at its end, and every new call comes after every earlier call in table
\* order (DARES1.0 before DARES2.0, then by model index, then by setting
\* index) and is the experiment at the next position of the grid.
C2_Order ==
  [][\/ calls' = calls
     \/ /\ Len(calls') = Len(calls) + 1
        /\ SubSeq(calls', 1, Len(calls)) = calls
        /\ LET a == calls'[Len(calls')]
           IN /\ \A i \in 1..Len(calls) : Precedes(calls[i], a)
              /\ <<PhaseIdx(a), ModelIdx(a), SettingIdx(a)>> = GridPos(Len(calls'))]_vars

C2_Witness ==
  /\ pc = "wait" /\ phase = 2 /\ mi = 2 /\ si = 3
  /\ \E k \in 1..Len(waits) : Failed(k) /\ k <= 30

\* C3: a failed or interrupted experiment never aborts the batch: the step in
\* which a subprocess wait ends in failure appends a record with success
\* FALSE, leaves the driver running and positioned on the next experiment of
\* the grid (or on the summary after the last one); and, every subprocess
\* eventually returning, main() ends having attempted all 70 experiments.
C3_NoAbort ==
  /\ [][(Len(waits') = Len(waits) + 1 /\ waits'[Len(waits')].exc # "none") =>
          /\ Len(results') = Len(results) + 1
          /\ results'[Len(results')].success = FALSE
          /\ exit_status' = None
          /\ IF Len(calls) < 70
               THEN pc' = "loop" /\ <<phase', mi', si'>> = GridPos(Len(calls) + 1)
               ELSE pc' = "summary"]_vars
  /\ <>(pc = "done" /\ Len(calls) = 70 /\ Len(results) = 70)

C3_Witness ==
  /\ pc = "done" /\ Len(calls) = 70
  /\ \E k \in 1..69 : Failed(k)

C5_Args ==
  \A p \in running :
    LET a == calls[p.id]
        at(flag) == {i \in 1..Len(p.cmd) : p.cmd[i] = flag}
    IN /\ \E i \in at("--run_mode") : i < Len(p.cmd) /\ p.cmd[i + 1] = a.run_mode
       /\ a.append_column = None => at("--append_column") = {}
       /\ a.append_column # None =>
            /\ Cardinality(at("--append_column")) = 1
            /\ \A i \in at("--append_column") :
                 i < Len(p.cmd) /\ p.cmd[i + 1] = a.append_column[1]

C5_Witness ==
  \E p \in running :
    /\ calls[p.id].dataset = "DARES2.0"
    /\ calls[p.id].append_column = Some("word_file_cat")
    /\ p.cmd[Len(p.cmd)] = "word_file_cat"

\* The command of the experiment at the current loop position, with lr
\* standing for the text of the learning rate argument.
CommandWith(lr) ==
  LET setting == (IF phase = 1 THEN DARES1_SETTINGS ELSE DARES2_SETTINGS)[si]
  IN << sys_executable, "-m",
        IF phase = 1 THEN "experiments.dares1.0_assess"
                     ELSE "experiments.dares2.0_assess",
        "--model_name", MODELS[mi][1], "--model_type", MODELS[mi][2],
        "--num_train_epochs", "4", "--run_mode", setting[1],
        "--n_fold", "3", "--cuda_device", "0", "--lr", lr,
        "--save_predictions", "True" >>
     \o (IF setting[2] = None THEN <<>> ELSE <<"--append_column", setting[2][1]>>)

\* C6 as stated: every experiment is launched as "<interpreter> -m <module>
\* --model_name .. --model_type .. --num_train_epochs 4 --run_mode .. --n_fold
\* 3 --cuda_device 0 --lr 0.00001 --save_predictions True [--append_column ..]".
C6_AsStated == \A p \in running : p.cmd = CommandWith("0.00001")

\* C6, amended: the command is as stated, in that order and with those
\* values, except that the learning rate argument is the text str() gives for
\* 0.00001, which is 1e-05.
C6_Command == \A p \in running : p.cmd = CommandWith("1e-05")

C6_Witness ==
  /\ pc = "wait" /\ phase = 2 /\ mi = 5
  /\ \E p \in running : p.cmd[5] = "xlm-roberta-base" /\ p.cmd[17] = "1e-05"

\* C7: at most one subprocess runs at any time, it is the subprocess of the
\* latest call, and every earlier call has completed and has its record in
\* the results before it is launched.
C7_Sequential ==
  /\ Cardinality(running) <= 1
  /\ \A p \in running : p.id = Len(calls)
  /\ Len(results) + Cardinality(running) = Len(calls)
  /\ Len(waits) = Len(results)

C7_Witness ==
  /\ pc = "wait" /\ Cardinality(running) = 1
  /\ Len(results) = 41 /\ Len(calls) = 42

\* C8: an interrupted wait leaves a record with success FALSE and an elapsed
\* time of exactly zero although time has passed, and does not stop the
\* loops: the step that handles the interrupt leaves the driver running and
\* positioned on the next experiment of the grid, and when main() has ended
\* the record is still a zero-time failure, all 70 experiments have been
\* launched and those after the interrupted one follow the grid.
C8_Interrupt ==
  /\ [][(Len(waits') = Len(waits) + 1
          /\ waits'[Len(waits')].exc = "KeyboardInterrupt") =>
          /\ waits'[Len(waits')].waited > 0 /\ now' > start_time
          /\ Len(results') = Len(results) + 1
          /\ results'[Len(results')].success = FALSE
          /\ results'[Len(results')].time_min.num = 0
          /\ pc' # "aborted" /\ exit_status' = None
          /\ Len(calls) < 70 =>
               pc' = "loop" /\ <<phase', mi', si'>> = GridPos(Len(calls) + 1)]_vars
  /\ [](pc = "done" =>
         \A k \in 1..Len(waits) :
           waits[k].exc = "KeyboardInterrupt" =>
             /\ results[k].success = FALSE /\ results[k].time_min.num = 0
             /\ Len(calls) = 70
             /\ \A j \in (k + 1)..Len(calls) :
                  <<PhaseIdx(calls[j]), ModelIdx(calls[j]), SettingIdx(calls[j])>>
                    = GridPos(j))

C8_Witness ==
  /\ pc = "done" /\ Len(calls) = 70
  /\ \E k \in 1..69 : waits[k].exc = "KeyboardInterrupt" /\ waits[k].waited > 0

C10_Results ==
  /\ [](/\ Len(results) = Len(waits)
        /\ \A k \in 1..Len(results) :
             /\ results[k].dataset = calls[k].dataset
             /\ results[k].model = calls[k].model_short
             /\ results[k].run_mode = calls[k].run_mode
             /\ results[k].grain = calls[k].grain_type
             /\ results[k].success = (waits[k].exc = "none"))
  /\ [][\/ results' = results
        \/ /\ Len(results') = Len(results) + 1
           /\ SubSeq(results', 1, Len(results)) = results
           /\ Len(waits') = Len(waits) + 1]_vars

C10_Witness ==
  /\ Len(results) = 3
  /\ ~results[2].success /\ results[3].success
  /\ results[2].grain = "Fine" /\ results[2].run_mode = "append_word"

====
